---- MODULE Spec2Model ----
(***************************************************************************)
(* A model of scrapers/gu/bills.py (GUBillScraper): the detail extractors  *)
(* over normalized PDF text, the bill and resolution block parsers, and    *)
(* the segmentation done by scrape.                                        *)
(*                                                                         *)
(* Strings are sequences of one-character strings, so that strip, split,   *)
(* removeprefix, join and the substring test are computed as Python        *)
(* computes them.  A normalized PDF text is a sequence of tokens, one per  *)
(* maximal match of the patterns the extractors apply; an index page is a  *)
(* sequence of the tokens the boundary patterns and the split on the       *)
(* comment terminator can see.  A Python exception is a value of `raised`. *)
(***************************************************************************)
EXTENDS Integers, Sequences, FiniteSets, TLC

VARIABLES call, bill_obj, details, fetched, yielded, raised

vars == <<call, bill_obj, details, fetched, yielded, raised>>

\* ------------------------------------------------------------------ bounds

\* longest normalized PDF text, in tokens
MaxText == 4
\* most lines in a sponsor block
MaxSponsorLines == 2
\* most list items after the status item in a bill fragment
MaxDocLinks == 1
\* most tokens on a synthetic index page
MaxPage == 7

\* ------------------------------------------------------------- str methods

WS == {" ", "\n", "\t"}

RECURSIVE LStrip(_, _)
LStrip(s, chars) ==
  IF s # <<>> /\ Head(s) \in chars THEN LStrip(Tail(s), chars) ELSE s

RECURSIVE RStrip(_, _)
RStrip(s, chars) ==
  IF s # <<>> /\ s[Len(s)] \in chars
    THEN RStrip(SubSeq(s, 1, Len(s) - 1), chars)
    ELSE s

\* str.strip(chars); str.strip() is Strip(s, WS)
Strip(s, chars) == RStrip(LStrip(s, chars), chars)

StartsWith(s, p) == Len(s) >= Len(p) /\ SubSeq(s, 1, Len(p)) = p

\* str.removeprefix(p)
RemovePrefix(s, p) ==
  IF StartsWith(s, p) THEN SubSeq(s, Len(p) + 1, Len(s)) ELSE s

\* the test `sub in s`
Contains(s, sub) ==
  \E i \in 1..(Len(s) - Len(sub) + 1) : SubSeq(s, i, i + Len(sub) - 1) = sub

\* str.split(sep) for a non-empty separator: always at least one part
RECURSIVE SplitOn(_, _)
SplitOn(s, sep) ==
  IF ~Contains(s, sep)
    THEN <<s>>
    ELSE LET i == CHOOSE j \in 1..(Len(s) - Len(sep) + 1) :
                    /\ SubSeq(s, j, j + Len(sep) - 1) = sep
                    /\ \A k \in 1..(j - 1) : SubSeq(s, k, k + Len(sep) - 1) # sep
         IN  <<SubSeq(s, 1, i - 1)>> \o SplitOn(SubSeq(s, i + Len(sep), Len(s)), sep)

\* str.split(): the maximal runs of non-whitespace characters
RECURSIVE SplitWS(_)
SplitWS(s) ==
  LET t == LStrip(s, WS)
  IN  IF t = <<>>
        THEN <<>>
        ELSE LET n == CHOOSE j \in 1..Len(t) :
                        /\ \A k \in 1..j : t[k] \notin WS
                        /\ (j = Len(t) \/ t[j + 1] \in WS)
             IN  <<SubSeq(t, 1, n)>> \o SplitWS(SubSeq(t, n + 1, Len(t)))

\* "".join(parts)
RECURSIVE Join(_)
Join(parts) == IF parts = <<>> THEN <<>> ELSE Head(parts) \o Join(Tail(parts))

\* sep.join(parts)
RECURSIVE JoinWith(_, _)
JoinWith(parts, sep) ==
  IF parts = <<>> THEN <<>>
  ELSE IF Len(parts) = 1 THEN parts[1]
  ELSE parts[1] \o sep \o JoinWith(Tail(parts), sep)

UpperCase ==
  <<"A", "B", "C", "D", "E", "F", "G", "H", "I", "J", "K", "L", "M",
     "N", "O", "P", "Q", "R", "S", "T", "U", "V", "W", "X", "Y", "Z">>

LowerCase ==
  <<"a", "b", "c", "d", "e", "f", "g", "h", "i", "j", "k", "l", "m",
     "n", "o", "p", "q", "r", "s", "t", "u", "v", "w", "x", "y", "z">>

IsUpper(c) == \E i \in 1..26 : UpperCase[i] = c
IsLower(c) == \E i \in 1..26 : LowerCase[i] = c
ToLower(c) == IF IsUpper(c) THEN LowerCase[CHOOSE i \in 1..26 : UpperCase[i] = c] ELSE c
ToUpper(c) == IF IsLower(c) THEN UpperCase[CHOOSE i \in 1..26 : LowerCase[i] = c] ELSE c

\* str.title(): a cased character is upper-cased after an uncased one and
\* lower-cased after a cased one
Title(s) ==
  [i \in 1..Len(s) |->
     IF i > 1 /\ (IsUpper(s[i - 1]) \/ IsLower(s[i - 1]))
       THEN ToLower(s[i])
       ELSE ToUpper(s[i])]

\* ---------------------------------------------------------------- literals

\* the prefix removed from a bill's identifier line
BillNoPrefix ==
  <<"B", "i", "l", "l", " ", "N", "o", ".", " ">>

\* the prefix removed from a resolution's link text
ResNoPrefix ==
  <<"R", "e", "s", ".", " ", "N", "o", ".", " ">>

\* the withdrawal marker
WITHDRAWN ==
  <<"W", "I", "T", "H", "D", "R", "A", "W", "N">>

\* the separator of the description's last split
PTag ==
  <<"<", "p", ">">>

\* the title every record is created with
Placeholder ==
  <<"S", "e", "e", " ", "I", "n", "t", "r", "o", "d", "u", "c", "e", "d", " ", "L", "i", "n", "k">>

Introduced ==
  <<"I", "n", "t", "r", "o", "d", "u", "c", "e", "d">>

ReferredToCommittee ==
  <<"R", "e", "f", "e", "r", "r", "e", "d", " ", "T", "o", " ", "C", "o", "m", "m", "i", "t", "t", "e", "e">>

Presented ==
  <<"P", "r", "e", "s", "e", "n", "t", "e", "d">>

Adopted ==
  <<"A", "d", "o", "p", "t", "e", "d">>

\* -------------------------------------------------------- detail extractors

\* the tokens of a normalized text: "dt" is a match of date_time_re (whose
\* leading date is also a match of date_re), "d" a match of date_re outside
\* any date-time, "c" a match of committee_re
TextTokens == {"dt", "d", "c"}

None == [type |-> "NoneType"]

_tz == "Pacific/Guam"

\* pattern.findall(text_only): the matches in text order, each named by its
\* pattern and its ordinal among that pattern's matches
FindAll(pattern, kinds, text_only) ==
  [i \in 1..Len(SelectSeq(text_only, LAMBDA tok : tok \in kinds)) |->
     [pattern |-> pattern, match |-> i]]

date_time_re(text_only) == FindAll("date_time_re", {"dt"}, text_only)

date_re(text_only) == FindAll("date_re", {"dt", "d"}, text_only)

committee_re(text_only) == FindAll("committee_re", {"c"}, text_only)

\* self._tz.localize(dateutil.parser.parse(m)): an aware date-time
Localize(m) == [type |-> "datetime", tzinfo |-> _tz, parsed |-> m]

Return(v) == [raised |-> "none", value |-> v]

Raise(e) == [raised |-> e]

\* list[i] with Python's 0-based index
InRange(list, i) == i < Len(list)

At(list, i) == list[i + 1]

_get_bill_details(text_only) ==
  LET full_dates == date_time_re(text_only)
      days == date_re(text_only)
      committee == committee_re(text_only)
  IN  IF full_dates # <<>> /\ ~InRange(full_dates, 1)
        THEN Raise("IndexError")
        ELSE Return(
               [IntroducedDate |->
                  IF full_dates # <<>> THEN Localize(At(full_dates, 1)) ELSE None,
                ReferredDate |->
                  IF Len(days) > 2 THEN Localize(At(days, 2)) ELSE None,
                Committee |->
                  IF committee # <<>>
                    THEN [type |-> "str", normalized |-> At(committee, 0)]
                    ELSE None])

_get_resolution_details(text_only) ==
  LET full_dates == date_time_re(text_only)
  IN  IF full_dates = <<>>
        THEN Return([IntroducedDate |-> None,
                     PresentationDate |-> None,
                     AdoptedDate |-> None])
      ELSE IF ~InRange(full_dates, 1)
        THEN Raise("IndexError")
      ELSE IF Len(full_dates) > 1 /\ ~InRange(full_dates, 2)
        THEN Raise("IndexError")
      ELSE IF Len(full_dates) > 2 /\ ~InRange(full_dates, 3)
        THEN Raise("IndexError")
      ELSE Return(
             [IntroducedDate |-> Localize(At(full_dates, 1)),
              PresentationDate |->
                IF Len(full_dates) > 1 THEN Localize(At(full_dates, 2)) ELSE None,
              AdoptedDate |->
                IF Len(full_dates) > 2 THEN Localize(At(full_dates, 3)) ELSE None])

\* self._get_details(url): the class defines no method of this name; the
\* extractor of the record's kind is applied to the document at the url
_get_details(classification, text_only) ==
  IF classification = "bill"
    THEN _get_bill_details(text_only)
    ELSE _get_resolution_details(text_only)

\* `if details[key]:` on a value that is None, an aware date-time or a
\* non-empty string
Truthy(v) == v # None

\* ------------------------------------------------------------- the record

\* Bill(name, legislative_session=, chamber="unicameral",
\*      title="See Introduced Link", classification=)
Bill(name, session, classification) ==
  [identifier |-> name,
   legislative_session |-> session,
   chamber |-> "unicameral",
   title |-> Placeholder,
   classification |-> classification,
   sources |-> <<>>,
   actions |-> <<>>,
   sponsorships |-> <<>>,
   documents |-> <<>>]

\* no record has been constructed
NoBill == Bill(<<>>, "", "none")

NoDetails == [returned |-> FALSE]

add_source(b, url, note) ==
  [b EXCEPT !.sources = Append(@, [url |-> url, note |-> note])]

add_action(b, description, date, organization) ==
  [b EXCEPT !.actions =
     Append(@, [description |-> description,
                date |-> date,
                organization |-> organization])]

add_sponsorship(b, name, classification, primary) ==
  [b EXCEPT !.sponsorships =
     Append(@, [name |-> name,
                entity_type |-> "person",
                classification |-> classification,
                primary |-> primary])]

add_document_link(b, url, note) ==
  [b EXCEPT !.documents = Append(@, [url |-> url, note |-> note])]

\* what one run of a block parser leaves behind
Out(b, f, d, r, y) ==
  [bill_obj |-> b, fetched |-> f, details |-> d, raised |-> r, yielded |-> y]

\* ------------------------------------------------------------ block parsers

\* xml.xpath("//a/@href"): the links before the list, then those of the
\* list items, in document order
RECURSIVE Flatten(_)
Flatten(lists) ==
  IF lists = <<>> THEN <<>> ELSE Head(lists) \o Flatten(Tail(lists))

Hrefs(frag) ==
  LET anchors == frag.a \o Flatten(frag.li)
  IN  [i \in 1..Len(anchors) |-> anchors[i].href]

\* [s.strip("/").strip() for s in group.split("\n") if s.strip()]
RECURSIVE SponsorList(_)
SponsorList(lines) ==
  IF lines = <<>> THEN <<>>
  ELSE IF Strip(Head(lines), WS) # <<>>
    THEN <<Strip(Strip(Head(lines), {"/"}), WS)>> \o SponsorList(Tail(lines))
    ELSE SponsorList(Tail(lines))

Sponsors(group) == SponsorList(SplitOn(group, <<"\n">>))

\* the primary sponsorship, then one cosponsorship per remaining entry
RECURSIVE AddCosponsors(_, _)
AddCosponsors(b, rest) ==
  IF rest = <<>> THEN b
  ELSE AddCosponsors(add_sponsorship(b, Head(rest), "cosponsor", FALSE), Tail(rest))

AddSponsorships(b, sponsors) ==
  AddCosponsors(add_sponsorship(b, sponsors[1], "primary", TRUE), Tail(sponsors))

\* the marker looked for in the identifier token alone
WithdrawnInName(name_parts) == Contains(name_parts[1], WITHDRAWN)

\* "WITHDRAWN" in "".join(name_parts)
Withdrawn(name_parts) == Contains(Join(name_parts), WITHDRAWN)

\* the actions a bill's details give, the same code in both branches
AddBillActions(b, d) ==
  LET b1 == IF Truthy(d.IntroducedDate)
              THEN add_action(b, Introduced, d.IntroducedDate, None)
              ELSE b
  IN  IF Truthy(d.ReferredDate)
        THEN IF Truthy(d.Committee)
               THEN add_action(b1, ReferredToCommittee, d.ReferredDate, d.Committee)
               ELSE add_action(b1, ReferredToCommittee, d.ReferredDate, None)
        ELSE b1

\* for link in xml.xpath("//li")[1:]: one document link per list item, until
\* an item without a link raises
RECURSIVE AddDocumentLinks(_, _)
AddDocumentLinks(b, items) ==
  IF items = <<>> THEN [bill_obj |-> b, raised |-> "none"]
  ELSE IF Head(items) = <<>> THEN [bill_obj |-> b, raised |-> "IndexError"]
  ELSE AddDocumentLinks(
         add_document_link(b, Head(items)[1].href, Head(items)[1].text),
         Tail(items))

\* fetch the details at url and add the bill's actions; yield the record
BillDetails(b, url, text_only) ==
  LET got == _get_details("bill", text_only)
  IN  IF got.raised # "none"
        THEN Out(b, <<url>>, NoDetails, got.raised, <<>>)
        ELSE LET done == AddBillActions(b, got.value)
             IN  Out(done, <<url>>, got.value, "none", <<done>>)

BillNormalBranch(b0, bill, text_only) ==
  IF bill.li = <<>> \/ bill.li[1] = <<>>
    THEN Out(b0, <<>>, NoDetails, "IndexError", <<>>)
  ELSE
  LET status == bill.li[1][1].href
      b1 == add_document_link(b0, status, "Bill Status")
  IN
  IF bill.desc = <<>>
    THEN Out(b1, <<>>, NoDetails, "AttributeError", <<>>)
  ELSE
  LET parts == SplitOn(Strip(bill.desc[1], WS), PTag)
      description == parts[Len(parts)]
      b2 == [b1 EXCEPT !.title = Title(description)]
  IN
  IF bill.sponsors = <<>>
    THEN Out(b2, <<>>, NoDetails, "AttributeError", <<>>)
  ELSE
  LET sponsors == Sponsors(bill.sponsors[1])
  IN
  IF sponsors = <<>>
    THEN Out(b2, <<>>, NoDetails, "IndexError", <<>>)
  ELSE
  LET b3 == AddSponsorships(b2, sponsors)
      linked == AddDocumentLinks(b3, Tail(bill.li))
  IN
  IF linked.raised # "none"
    THEN Out(linked.bill_obj, <<>>, NoDetails, linked.raised, <<>>)
    ELSE BillDetails(linked.bill_obj, status, text_only)

\* xml.xpath("//strong")[0].text.strip().removeprefix("Bill No. ").split()
NameParts(text) == SplitWS(RemovePrefix(Strip(text, WS), BillNoPrefix))

_process_bill(session, bill, root_url, text_only) ==
  IF bill.strong = <<>>
    THEN Out(NoBill, <<>>, NoDetails, "IndexError", <<>>)
  ELSE
  LET name_parts == NameParts(bill.strong[1])
  IN
  IF name_parts = <<>>
    THEN Out(NoBill, <<>>, NoDetails, "IndexError", <<>>)
  ELSE
  LET name == RemovePrefix(Strip(name_parts[1], WS), BillNoPrefix)
  IN
  IF Hrefs(bill) = <<>>
    THEN Out(NoBill, <<>>, NoDetails, "IndexError", <<>>)
  ELSE
  LET bill_link == Hrefs(bill)[1]
      b0 == add_source(
              add_source(Bill(name, session, "bill"), root_url, "Bill Index"),
              bill_link, "Bill Introduced")
  IN
  IF Withdrawn(name_parts)
    THEN BillDetails(b0, bill_link, text_only)
    ELSE BillNormalBranch(b0, bill, text_only)

\* a Python str held where None is the alternative
Str(chars) == [type |-> "str", chars |-> chars]

\* the result tail cut at the last "-" only, as rsplit("-", 1) would
ResultTailAtLastDash(sponsors) ==
  LET last == sponsors[Len(sponsors)]
      at == CHOOSE i \in 1..Len(last) :
              last[i] = "-" /\ \A j \in (i + 1)..Len(last) : last[j] # "-"
  IN  IF ~Contains(last, <<"-">>)
        THEN [raised |-> "none", sponsors |-> sponsors,
              result |-> None, result_date |-> None]
      ELSE
      LET named == [sponsors EXCEPT ![Len(sponsors)] = SubSeq(last, 1, at - 1)]
          result_data == SplitWS(SubSeq(last, at + 1, Len(last)))
      IN  IF Len(result_data) # 2
            THEN [raised |-> "ValueError", sponsors |-> named,
                  result |-> None, result_date |-> None]
            ELSE [raised |-> "none", sponsors |-> named,
                  result |-> Str(result_data[1]),
                  result_date |-> Str(result_data[2])]

\* lines 203-208: the result tail of the last sponsor entry
ResultTail(sponsors) ==
  LET last == sponsors[Len(sponsors)]
      halves == SplitOn(last, <<"-">>)
  IN  IF ~Contains(last, <<"-">>)
        THEN [raised |-> "none", sponsors |-> sponsors,
              result |-> None, result_date |-> None]
      ELSE IF Len(halves) # 2
        THEN [raised |-> "ValueError", sponsors |-> sponsors,
              result |-> None, result_date |-> None]
      ELSE
      LET named == [sponsors EXCEPT ![Len(sponsors)] = halves[1]]
          result_data == SplitWS(halves[2])
      IN  IF Len(result_data) # 2
            THEN [raised |-> "ValueError", sponsors |-> named,
                  result |-> None, result_date |-> None]
            ELSE [raised |-> "none", sponsors |-> named,
                  result |-> Str(result_data[1]),
                  result_date |-> Str(result_data[2])]

\* d[key]
HasKey(d, key) == key \in DOMAIN d

\* lines 227-234: fetch the details and add the resolution's actions
ResolutionDetails(b, url, text_only) ==
  LET got == _get_details("resolution", text_only)
  IN
  IF got.raised # "none"
    THEN Out(b, <<url>>, NoDetails, got.raised, <<>>)
  ELSE
  LET d == got.value
      b1 == IF Truthy(d.IntroducedDate)
              THEN add_action(b, Introduced, d.IntroducedDate, None)
              ELSE b
  IN
  IF Truthy(d.PresentationDate) /\ ~HasKey(d, "ReferredDate")
    THEN Out(b1, <<url>>, d, "KeyError", <<>>)
  ELSE
  LET b2 == IF Truthy(d.PresentationDate)
              THEN add_action(b1, Presented, d.ReferredDate, None)
              ELSE b1
  IN
  IF Truthy(d.AdoptedDate) /\ ~HasKey(d, "ReferredDate")
    THEN Out(b2, <<url>>, d, "KeyError", <<>>)
  ELSE
  LET b3 == IF Truthy(d.AdoptedDate)
              THEN add_action(b2, Adopted, d.ReferredDate, None)
              ELSE b2
  IN  Out(b3, <<url>>, d, "none", <<b3>>)

_process_resolution(session, bill, root_url, text_only) ==
  IF bill.a = <<>>
    THEN Out(NoBill, <<>>, NoDetails, "IndexError", <<>>)
  ELSE
  LET res_parts == SplitWS(RemovePrefix(bill.a[1].text, ResNoPrefix))
  IN
  IF res_parts = <<>>
    THEN Out(NoBill, <<>>, NoDetails, "IndexError", <<>>)
  ELSE
  LET name == Strip(res_parts[1], WS)
      bill_link == Hrefs(bill)[1]
      b0 == add_source(
              add_source(Bill(name, session, "resolution"), root_url, "Bill Index"),
              bill_link, "Bill Introduced")
  IN
  IF bill.desc = <<>>
    THEN Out(b0, <<>>, NoDetails, "AttributeError", <<>>)
  ELSE
  LET b1 == [b0 EXCEPT !.title = Title(bill.desc[1])]
  IN
  IF bill.sponsors = <<>>
    THEN Out(b1, <<>>, NoDetails, "AttributeError", <<>>)
  ELSE
  LET listed == Sponsors(bill.sponsors[1])
  IN
  IF listed = <<>>
    THEN Out(b1, <<>>, NoDetails, "IndexError", <<>>)
  ELSE
  LET tail == ResultTail(listed)
  IN
  IF tail.raised # "none"
    THEN Out(b1, <<>>, NoDetails, tail.raised, <<>>)
  ELSE
  LET b2 == IF Truthy(tail.result) /\ Truthy(tail.result_date)
              THEN add_action(b1, tail.result.chars, tail.result_date, None)
              ELSE b1
      b3 == AddSponsorships(b2, tail.sponsors)
  IN  ResolutionDetails(b3, bill_link, text_only)

\* ------------------------------------------------------------- segmentation

\* what the split on the comment terminator and the boundary pattern can
\* see of an index page: the terminator, the opening tag of res_match_re,
\* the closing <br>, and any other text
PageTokens == {"-->", "<p align=\"left\">", "<br>", "text"}

\* res_match_re.findall(doc): leftmost matches of the opening tag up to the
\* nearest <br> after it, resumed after each match
RECURSIVE res_match_re(_)
res_match_re(doc) ==
  IF ~\E i \in 1..Len(doc) : \E j \in (i + 1)..Len(doc) :
        doc[i] = "<p align=\"left\">" /\ doc[j] = "<br>"
    THEN <<>>
    ELSE LET i == CHOOSE m \in 1..Len(doc) :
                    /\ doc[m] = "<p align=\"left\">"
                    /\ \A k \in 1..(m - 1) : doc[k] # "<p align=\"left\">"
             j == CHOOSE m \in (i + 1)..Len(doc) :
                    /\ doc[m] = "<br>"
                    /\ \A k \in (i + 1)..(m - 1) : doc[k] # "<br>"
         IN  <<SubSeq(doc, i, j)>> \o res_match_re(SubSeq(doc, j + 1, Len(doc)))

\* the content after the last terminator: split("-->")[-1]
ContentAfterLast(page) ==
  LET blocks == SplitOn(page, <<"-->">>)
  IN  Return(blocks[Len(blocks)])

\* self.get(res_url).text.split("-->")[-2]
ContentBlock(page) ==
  LET blocks == SplitOn(page, <<"-->">>)
  IN  IF Len(blocks) < 2
        THEN Raise("IndexError")
        ELSE Return(blocks[Len(blocks) - 1])

\* scrape(session): one generator per fragment of the resolution index
scrape(session, page) ==
  LET doc == ContentBlock(page)
      res_url == <<session, "_res_content.htm">>
  IN  IF doc.raised # "none"
        THEN Out(NoBill, <<res_url>>, NoDetails, doc.raised, <<>>)
        ELSE LET found == res_match_re(doc.value)
             IN  Out(NoBill, <<res_url>>, NoDetails, "none",
                     [i \in 1..Len(found) |->
                        [generator |-> "_process_resolution",
                         session |-> session,
                         bill |-> found[i],
                         root_url |-> res_url]])

\* ------------------------------------------------------------------ inputs

BoundedSeq(S, n) == UNION {[1..k -> S] : k \in 0..n}

\* the normalized texts a status document can give
NormalizedTexts == BoundedSeq(TextTokens, MaxText)

\* the index pages
Pages == BoundedSeq(PageTokens, MaxPage)

Session == "37th"

Anchor(href, text) == [href |-> href, text |-> text]

\* identifier lines of a bill fragment's first <strong>
IdNormal ==
  <<"B", "i", "l", "l", " ", "N", "o", ".", " ", "1", "6", "3", "-", "3", "7", " ", "(", "L", "S", ")">>

IdWithdrawn ==
  <<"B", "i", "l", "l", " ", "N", "o", ".", " ", "1", "6", "0", "-", "3", "7", " ", "(", "L", "S", ")", " ", "-", " ", "W", "I", "T", "H", "D", "R", "A", "W", "N">>

IdSpaced ==
  <<"B", "i", "l", "l", " ", "N", "o", ".", " ", "1", "6", "1", "-", "3", "7", " ", "(", "L", "S", ")", " ", "-", " ", "W", "I", "T", "H", " ", "D", "R", "A", "W", "N">>

IdLowercase ==
  <<"B", "i", "l", "l", " ", "N", "o", ".", " ", "1", "6", "2", "-", "3", "7", " ", "(", "L", "S", ")", " ", "-", " ", "W", "i", "t", "h", "d", "r", "a", "w", "n">>

IdBlank ==
  <<" ", " ">>

\* the text of a resolution fragment's first link
ResText ==
  <<"R", "e", "s", ".", " ", "N", "o", ".", " ", "1", "2", "-", "3", "7", " ", "(", "C", "O", "R", ")">>

\* the captures of desc_match_re and res_desc_match_re
DescBill ==
  <<"\n", "A", "N", " ", "A", "C", "T", "<", "p", ">", "t", "o", " ", "a", "d", "d", " ", "b", " ">>

DescRes ==
  <<"R", "e", "l", "a", "t", "i", "v", "e", " ", "t", "o", " ", "a", "\n">>

\* the result tail "J. Doe - ADOPTED 01/02/20" and its parts
JDoe ==
  <<"J", ".", " ", "D", "o", "e">>

ADOPTED ==
  <<"A", "D", "O", "P", "T", "E", "D">>

ResultDate ==
  <<"0", "1", "/", "0", "2", "/", "2", "0">>

\* lines of a sponsor block
LineEmpty ==
  <<>>

LineSlash ==
  <<"/">>

LineSpaceSlash ==
  <<" ", "/", "J", ".", " ", "D", "o", "e">>

LinePlain ==
  <<"/", "A", ".", " ", "P", "o", "e">>

LineTail ==
  <<"J", ".", " ", "D", "o", "e", " ", "-", " ", "A", "D", "O", "P", "T", "E", "D", " ", "0", "1", "/", "0", "2", "/", "2", "0">>

LineOneToken ==
  <<"J", ".", " ", "D", "o", "e", " ", "-", " ", "A", "D", "O", "P", "T", "E", "D">>

LineThreeTokens ==
  <<"J", ".", " ", "D", "o", "e", " ", "-", " ", "A", "D", "O", "P", "T", "E", "D", " ", "0", "1", "/", "0", "2", "/", "2", "0", " ", "p", "m">>

LineHyphenated ==
  <<"A", "-", "B", " ", "-", " ", "A", "D", "O", "P", "T", "E", "D", " ", "0", "1", "/", "0", "2", "/", "2", "0">>

IdLines == {IdNormal, IdWithdrawn, IdSpaced, IdLowercase}

SponsorLines ==
  {LineEmpty, LineSlash, LineSpaceSlash, LinePlain, LineTail, LineOneToken,
   LineThreeTokens, LineHyphenated}

\* the captures of sponsors_match_re: up to MaxSponsorLines lines
SponsorBlocks ==
  {JoinWith(lines, <<"\n">>) : lines \in BoundedSeq(SponsorLines, MaxSponsorLines)}

IntroducedLink == Anchor("introduced.pdf", "Introduced")

StatusItem == <<Anchor("status.pdf", "Status")>>

DocItem == <<Anchor("report.pdf", "Committee Report")>>

ListItems(n) == <<StatusItem>> \o [i \in 1..n |-> DocItem]

BillFragment(strong, a, li, desc, sponsors) ==
  [strong |-> strong, a |-> a, li |-> li, desc |-> desc, sponsors |-> sponsors]

\* fragments of the shape the bill parser assumes: every identifier line
\* with every number of further list items, and every sponsor block under a
\* plain and under a withdrawn identifier line
WellFormedBills ==
  {BillFragment(<<id>>, <<IntroducedLink>>, ListItems(n), <<DescBill>>, <<LinePlain>>) :
     id \in IdLines, n \in 0..MaxDocLinks}
  \cup
  {BillFragment(<<id>>, <<IntroducedLink>>, ListItems(0), <<DescBill>>, <<block>>) :
     id \in {IdNormal, IdWithdrawn}, block \in SponsorBlocks}

\* fragments that lack one of the parts the parser requires
MalformedBills ==
  {BillFragment(<<>>, <<IntroducedLink>>, ListItems(0), <<DescBill>>, <<LinePlain>>),
   BillFragment(<<IdBlank>>, <<IntroducedLink>>, ListItems(0), <<DescBill>>, <<LinePlain>>),
   BillFragment(<<IdNormal>>, <<>>, <<>>, <<DescBill>>, <<LinePlain>>),
   BillFragment(<<IdWithdrawn>>, <<>>, <<>>, <<DescBill>>, <<LinePlain>>),
   BillFragment(<<IdNormal>>, <<IntroducedLink>>, <<>>, <<DescBill>>, <<LinePlain>>),
   BillFragment(<<IdNormal>>, <<IntroducedLink>>, <<<<>>>>, <<DescBill>>, <<LinePlain>>),
   BillFragment(<<IdNormal>>, <<IntroducedLink>>, <<StatusItem, <<>>>>, <<DescBill>>, <<LinePlain>>),
   BillFragment(<<IdNormal>>, <<IntroducedLink>>, ListItems(0), <<>>, <<LinePlain>>),
   BillFragment(<<IdNormal>>, <<IntroducedLink>>, ListItems(0), <<DescBill>>, <<>>),
   BillFragment(<<IdWithdrawn>>, <<IntroducedLink>>, <<>>, <<>>, <<>>)}

BillFragments == WellFormedBills \cup MalformedBills

ResolutionLink == Anchor("resolution.pdf", ResText)

ResolutionFragment(a, desc, sponsors) ==
  [a |-> a, li |-> <<>>, desc |-> desc, sponsors |-> sponsors]

WellFormedResolutions ==
  {ResolutionFragment(<<ResolutionLink>>, <<DescRes>>, <<block>>) :
     block \in SponsorBlocks}

MalformedResolutions ==
  {ResolutionFragment(<<>>, <<DescRes>>, <<LinePlain>>),
   ResolutionFragment(<<Anchor("resolution.pdf", IdBlank)>>, <<DescRes>>, <<LinePlain>>),
   ResolutionFragment(<<ResolutionLink>>, <<>>, <<LinePlain>>),
   ResolutionFragment(<<ResolutionLink>>, <<DescRes>>, <<>>)}

ResolutionFragments == WellFormedResolutions \cup MalformedResolutions

\* ----------------------------------------------------------- specification

Idle == [op |-> "idle"]

Init ==
  /\ call = Idle
  /\ bill_obj = NoBill
  /\ details = NoDetails
  /\ fetched = <<>>
  /\ yielded = <<>>
  /\ raised = "none"

\* the state a call leaves behind
Leaves(out) ==
  /\ bill_obj' = out.bill_obj
  /\ details' = out.details
  /\ fetched' = out.fetched
  /\ yielded' = out.yielded
  /\ raised' = out.raised

GetBillDetails ==
  /\ call = Idle
  /\ \E text_only \in NormalizedTexts :
       LET got == _get_bill_details(text_only)
       IN  /\ call' = [op |-> "_get_bill_details", text_only |-> text_only]
           /\ Leaves(Out(NoBill, <<"status.pdf">>,
                         IF got.raised = "none" THEN got.value ELSE NoDetails,
                         got.raised, <<>>))

GetResolutionDetails ==
  /\ call = Idle
  /\ \E text_only \in NormalizedTexts :
       LET got == _get_resolution_details(text_only)
       IN  /\ call' = [op |-> "_get_resolution_details", text_only |-> text_only]
           /\ Leaves(Out(NoBill, <<"resolution.pdf">>,
                         IF got.raised = "none" THEN got.value ELSE NoDetails,
                         got.raised, <<>>))

ProcessBill ==
  /\ call = Idle
  /\ \E bill \in BillFragments : \E text_only \in NormalizedTexts :
       /\ call' = [op |-> "_process_bill", session |-> Session, bill |-> bill,
                   root_url |-> "bills_intro_content.htm"]
       /\ Leaves(_process_bill(Session, bill, "bills_intro_content.htm", text_only))

ProcessResolution ==
  /\ call = Idle
  /\ \E bill \in ResolutionFragments : \E text_only \in NormalizedTexts :
       /\ call' = [op |-> "_process_resolution", session |-> Session, bill |-> bill,
                   root_url |-> "res_content.htm"]
       /\ Leaves(_process_resolution(Session, bill, "res_content.htm", text_only))

Scrape ==
  /\ call = Idle
  /\ \E page \in Pages :
       /\ call' = [op |-> "scrape", session |-> Session, page |-> page]
       /\ Leaves(scrape(Session, page))

Next ==
  \/ GetBillDetails
  \/ GetResolutionDetails
  \/ ProcessBill
  \/ ProcessResolution
  \/ Scrape

Spec == Init /\ [][Next]_vars

\* the extractors alone
NextDetails == GetBillDetails \/ GetResolutionDetails

SpecDetails == Init /\ [][NextDetails]_vars

\* the bill block parser alone
NextBill == ProcessBill

SpecBill == Init /\ [][NextBill]_vars

\* the resolution block parser alone
NextResolution == ProcessResolution

SpecResolution == Init /\ [][NextResolution]_vars

\* the segmentation alone
NextScrape == Scrape

SpecScrape == Init /\ [][NextScrape]_vars

\* ------------------------------------------------------------------ claims

\* the number of date-time matches in a normalized text
DateTimeMatches(text_only) == Cardinality({i \in DOMAIN text_only : text_only[i] = "dt"})

\* the i-th (1-based) match of a pattern, localized
Nth(pattern, i) == Localize([pattern |-> pattern, match |-> i])

IsAware(date) ==
  /\ date.type = "datetime"
  /\ date.tzinfo = "Pacific/Guam"

\* the actions of a record with a given label
ActionsNamed(b, label) == SelectSeq(b.actions, LAMBDA act : act.description = label)

\* at most one action with this label, and one exactly when the field is
\* set, dated by that field
ActionIff(b, label, field) ==
  IF field = None
    THEN ActionsNamed(b, label) = <<>>
    ELSE /\ Len(ActionsNamed(b, label)) = 1
         /\ ActionsNamed(b, label)[1].date = field

\* C1: an extractor given a text with fewer than 2 date-time matches returns
\* normally with IntroducedDate unset; IntroducedDate, when set, is the 2nd
\* match and at least 2 matches exist.
C1_FewerThanTwoMatchesUnset ==
  call.op \in {"_get_bill_details", "_get_resolution_details"} =>
    LET k == DateTimeMatches(call.text_only)
    IN  /\ k < 2 => (raised = "none" /\ details.IntroducedDate = None)
        /\ k >= 2 /\ raised = "none" =>
             details.IntroducedDate = Nth("date_time_re", 2)

\* C6: the resolution extractor returns for every number k of date-time
\* matches, with PresentationDate the 3rd match iff k >= 3 and AdoptedDate the
\* 4th match iff k >= 4.
C6_ResolutionDatesByCount ==
  call.op = "_get_resolution_details" =>
    LET k == DateTimeMatches(call.text_only)
    IN  /\ raised = "none"
        /\ details.PresentationDate =
             (IF k >= 3 THEN Nth("date_time_re", 3) ELSE None)
        /\ details.AdoptedDate =
             (IF k >= 4 THEN Nth("date_time_re", 4) ELSE None)

\* C2: once the resolution parser has its details, it yields exactly one
\* record, with an "Introduced", "Presented" and "Adopted" action exactly for
\* the detail fields that are set, each dated by its own field.
C2_ResolutionActionsFromDetails ==
  (call.op = "_process_resolution" /\ details # NoDetails) =>
    /\ raised = "none"
    /\ yielded = <<bill_obj>>
    /\ ActionIff(bill_obj, Introduced, details.IntroducedDate)
    /\ ActionIff(bill_obj, Presented, details.PresentationDate)
    /\ ActionIff(bill_obj, Adopted, details.AdoptedDate)

\* a sponsor-block line with leading "/" and surrounding whitespace stripped
StrippedLine(line) == Strip(LStrip(Strip(line, WS), {"/"}), WS)

\* the first line of a sponsor block that is non-empty once stripped
FirstSponsorLine(group) ==
  LET lines == SplitOn(group, <<"\n">>)
      kept == SelectSeq(lines, LAMBDA line : StrippedLine(line) # <<>>)
  IN  IF kept = <<>> THEN <<>> ELSE StrippedLine(kept[1])

\* C3: a record given its sponsorships by the resolution parser or by the
\* bill parser's normal branch (no withdrawal marker), yielded or not, has the
\* primary sponsorship exactly once and first, named by the first non-empty
\* stripped line of the sponsor block, and no sponsorship with an empty name
\* or a name starting with "/".
C3_PrimarySponsor ==
  (/\ call.op \in {"_process_bill", "_process_resolution"}
   /\ (yielded # <<>> \/ bill_obj.sponsorships # <<>>)
   /\ (call.op = "_process_bill" => ~Withdrawn(NameParts(call.bill.strong[1])))) =>
    LET given == bill_obj.sponsorships
    IN  /\ given # <<>>
        /\ given[1].primary /\ given[1].classification = "primary"
        /\ \A i \in 2..Len(given) :
             ~given[i].primary /\ given[i].classification # "primary"
        /\ \A i \in 1..Len(given) :
             given[i].name # <<>> /\ given[i].name[1] # "/"
        /\ ~Contains(call.bill.sponsors[1], <<"-">>) =>
             given[1].name = FirstSponsorLine(call.bill.sponsors[1])

\* the first whitespace-delimited token of s
FirstToken(s) ==
  LET t == LStrip(s, WS)
      stops == {i \in 1..Len(t) : t[i] \in WS}
      end == IF stops = {} THEN Len(t)
             ELSE (CHOOSE i \in stops : \A j \in stops : i <= j) - 1
  IN  SubSeq(t, 1, end)

\* C4: a bill fragment whose identifier line contains "WITHDRAWN" gets no
\* sponsorship and no document link, keeps the placeholder title, has its
\* details fetched from the introduced link only, carries at most one
\* "Introduced" and one "Referred To Committee" action and nothing else, and
\* is identified by the first token after "Bill No. " ("160-37", a bill, for
\* "Bill No. 160-37 (LS) - WITHDRAWN").
C4_WithdrawalBranch ==
  (/\ call.op = "_process_bill"
   /\ call.bill.strong # <<>>
   /\ Contains(call.bill.strong[1], WITHDRAWN)) =>
    /\ bill_obj.sponsorships = <<>>
    /\ bill_obj.documents = <<>>
    /\ bill_obj.title = Placeholder
    /\ \A i \in 1..Len(fetched) : fetched[i] = call.bill.a[1].href
    /\ Len(ActionsNamed(bill_obj, Introduced)) <= 1
    /\ Len(ActionsNamed(bill_obj, ReferredToCommittee)) <= 1
    /\ \A i \in 1..Len(bill_obj.actions) :
         bill_obj.actions[i].description \in {Introduced, ReferredToCommittee}
    /\ yielded \in {<<>>, <<bill_obj>>}
    /\ (call.bill.a # <<>> /\ StartsWith(call.bill.strong[1], BillNoPrefix)) =>
         /\ bill_obj.classification = "bill"
         /\ bill_obj.identifier =
              FirstToken(RemovePrefix(call.bill.strong[1], BillNoPrefix))
    /\ (call.bill.a # <<>> /\ call.bill.strong[1] = IdWithdrawn) =>
         bill_obj.identifier = <<"1", "6", "0", "-", "3", "7">>

\* a withdrawn bill with a sponsor block in its fragment was yielded with
\* both of the branch's actions
C4_Witness ==
  /\ call.op = "_process_bill"
  /\ call.bill.strong = <<IdWithdrawn>>
  /\ call.bill.sponsors = <<LinePlain>>
  /\ yielded = <<bill_obj>>
  /\ Len(bill_obj.actions) = 2

\* C5: when the last sponsor entry is "J. Doe - ADOPTED 01/02/20", the last
\* sponsorship is named exactly "J. Doe" and the record has an action with
\* the label "ADOPTED" and the literal date "01/02/20".
C5_ResultTailSponsorAndAction ==
  (/\ call.op = "_process_resolution"
   /\ call.bill.sponsors # <<>>
   /\ LET lines == SplitOn(call.bill.sponsors[1], <<"\n">>)
      IN  lines[Len(lines)] = LineTail
   /\ bill_obj.sponsorships # <<>>) =>
    /\ bill_obj.sponsorships[Len(bill_obj.sponsorships)].name = JDoe
    /\ \E i \in 1..Len(bill_obj.actions) :
         /\ bill_obj.actions[i].description = ADOPTED
         /\ bill_obj.actions[i].date = Str(ResultDate)

\* C8: every action on a record a block parser builds or yields carries a
\* date that is aware in the legislative timezone, never a raw string.
C8_ActionDatesAware ==
  call.op \in {"_process_bill", "_process_resolution"} =>
    /\ \A j \in 1..Len(bill_obj.actions) : IsAware(bill_obj.actions[j].date)
    /\ \A i \in 1..Len(yielded) :
         \A j \in 1..Len(yielded[i].actions) : IsAware(yielded[i].actions[j].date)

\* C9: a bill parser that reaches the detail fetch yields exactly one record,
\* with "Introduced" iff IntroducedDate is set, "Referred To Committee" iff
\* ReferredDate is set, carrying the committee iff one was found, in that
\* order.
C9_BillActionsFromDetails ==
  (call.op = "_process_bill" /\ fetched # <<>>) =>
    /\ raised = "none"
    /\ yielded = <<bill_obj>>
    /\ ActionIff(bill_obj, Introduced, details.IntroducedDate)
    /\ ActionIff(bill_obj, ReferredToCommittee, details.ReferredDate)
    /\ details.ReferredDate # None =>
         ActionsNamed(bill_obj, ReferredToCommittee)[1].organization = details.Committee
    /\ (details.IntroducedDate # None /\ details.ReferredDate # None) =>
         /\ bill_obj.actions[1].description = Introduced
         /\ bill_obj.actions[2].description = ReferredToCommittee

\* the number of "-" in a sponsor entry
Dashes(entry) == Cardinality({i \in 1..Len(entry) : entry[i] = "-"})

\* the number of whitespace-separated tokens of s
Tokens(s) ==
  Cardinality({i \in 1..Len(s) : s[i] \notin WS /\ (i = 1 \/ s[i - 1] \in WS)})

\* the text after the first "-" of a sponsor entry
AfterDash(entry) ==
  LET at == CHOOSE i \in 1..Len(entry) :
              entry[i] = "-" /\ \A j \in 1..(i - 1) : entry[j] # "-"
  IN  SubSeq(entry, at + 1, Len(entry))

\* the names of a record's sponsorships, in order
SponsorNames(b) == [i \in 1..Len(b.sponsorships) |-> b.sponsorships[i].name]

\* C10: the resolution parser's result tail is all-or-nothing.  With no "-"
\* in the last sponsor entry there is no result action and the entries are
\* the sponsorships unchanged; with a "-", a record is yielded only if the
\* entry has exactly one "-" followed by exactly two tokens, and any other
\* shape raises before any sponsorship or action is added; an empty sponsor
\* list raises before any sponsorship is added.
C10_ResultTailAllOrNothing ==
  (/\ call.op = "_process_resolution"
   /\ bill_obj # NoBill
   /\ call.bill.desc # <<>>
   /\ call.bill.sponsors # <<>>) =>
    LET entries == Sponsors(call.bill.sponsors[1])
        last == entries[Len(entries)]
        wellShaped == Dashes(last) = 1 /\ Tokens(AfterDash(last)) = 2
    IN  IF entries = <<>>
          THEN raised = "IndexError" /\ bill_obj.sponsorships = <<>> /\ yielded = <<>>
        ELSE IF Dashes(last) = 0
          THEN /\ SponsorNames(bill_obj) = entries
               /\ \A i \in 1..Len(bill_obj.actions) :
                    bill_obj.actions[i].date.type = "datetime"
        ELSE /\ yielded # <<>> => wellShaped
             /\ ~wellShaped =>
                  /\ raised = "ValueError"
                  /\ bill_obj.sponsorships = <<>>
                  /\ bill_obj.actions = <<>>
                  /\ yielded = <<>>

\* a hyphenated sponsor name made the parser raise with nothing added
C10_Witness ==
  /\ call.op = "_process_resolution"
  /\ call.bill.sponsors = <<LineHyphenated>>
  /\ raised = "ValueError"
  /\ bill_obj.sponsorships = <<>>
  /\ bill_obj.actions = <<>>

\* a known-good fragment: the opening tag, no <br> and no terminator before
\* the closing <br>
KnownGood(fragment) ==
  /\ Len(fragment) >= 2
  /\ fragment[1] = "<p align=\"left\">"
  /\ fragment[Len(fragment)] = "<br>"
  /\ \A i \in 1..(Len(fragment) - 1) : fragment[i] \notin {"<br>", "-->"}

\* a listing cut after each <br>
RECURSIVE Pieces(_)
Pieces(listing) ==
  IF listing = <<>> THEN <<>>
  ELSE IF \A i \in 1..Len(listing) : listing[i] # "<br>" THEN <<listing>>
  ELSE LET cut == CHOOSE i \in 1..Len(listing) :
                    listing[i] = "<br>" /\ \A j \in 1..(i - 1) : listing[j] # "<br>"
       IN  <<SubSeq(listing, 1, cut)>> \o Pieces(SubSeq(listing, cut + 1, Len(listing)))

\* the listing is N >= 0 known-good fragments, concatenated
BuiltFromKnownGood(listing) ==
  \A i \in 1..Len(Pieces(listing)) : KnownGood(Pieces(listing)[i])

\* the fragments of the generators scrape yielded, in order
YieldedFragments == [i \in 1..Len(yielded) |-> yielded[i].bill]

\* C7 as stated: a page whose listing of known-good fragments follows the
\* terminator that separates it from the header is segmented into exactly
\* those fragments, in order.
C7_ListingAfterTerminator ==
  call.op = "scrape" =>
    \A i \in 1..Len(call.page) :
      LET listing == SubSeq(call.page, i + 1, Len(call.page))
      IN  (/\ call.page[i] = "-->"
           /\ \A j \in 1..Len(listing) : listing[j] # "-->"
           /\ BuiltFromKnownGood(listing)) =>
            raised = "none" /\ YieldedFragments = Pieces(listing)

\* C7 amended: a page whose listing of known-good fragments lies between
\* the second-to-last and the last terminator is segmented into exactly those
\* fragments, in order, one generator per fragment.
C7_ListingBetweenLastTwoTerminators ==
  call.op = "scrape" =>
    \A i \in 1..Len(call.page) : \A k \in (i + 1)..Len(call.page) :
      LET listing == SubSeq(call.page, i + 1, k - 1)
      IN  (/\ call.page[i] = "-->" /\ call.page[k] = "-->"
           /\ \A j \in 1..Len(listing) : listing[j] # "-->"
           /\ \A j \in (k + 1)..Len(call.page) : call.page[j] # "-->"
           /\ BuiltFromKnownGood(listing)) =>
            /\ raised = "none"
            /\ YieldedFragments = Pieces(listing)
            /\ \A j \in 1..Len(yielded) :
                 yielded[j].generator = "_process_resolution"

\* two different known-good fragments between two terminators were yielded
\* in page order
C7_Witness ==
  /\ call.op = "scrape"
  /\ call.page = <<"-->", "<p align=\"left\">", "text", "<br>",
                   "<p align=\"left\">", "<br>", "-->">>
  /\ Len(yielded) = 2
  /\ yielded[1].bill = <<"<p align=\"left\">", "text", "<br>">>
  /\ yielded[2].bill = <<"<p align=\"left\">", "<br>">>

====
